---- MODULE Spec2Model ----
(***************************************************************************)
(* LearnHub-API: enrollment provisioning, lesson completion and the        *)
(* denormalised completion flag of an enrollment.                          *)
(*                                                                         *)
(* The database is the state: the Lesson, Enrollment and Progress tables   *)
(* (rows in primary-key order, the key of a row is its index), plus the    *)
(* HTTP response of the last request and the requests that are in flight.  *)
(* Users, courses and modules are the fixtures the tables refer to.        *)
(* The project runs Django in autocommit mode (no ATOMIC_REQUESTS in       *)
(* config/settings.py), so every ORM statement of a view commits on its    *)
(* own: Spec runs the views one request at a time, SpecConc interleaves    *)
(* the statements of concurrent enroll requests, SpecRace those of         *)
(* concurrent complete and reset requests. SpecFixture runs the views over *)
(* the three-lesson course of the test suite, SpecAdmin adds the bulk      *)
(* actions of the admin site.                                              *)
(***************************************************************************)
EXTENDS Integers, Sequences, FiniteSets, TLC

VARIABLES
    courses,        \* Course table: slug -> [instructor, status, level]
    modules,        \* Module table: the ids of the modules created so far
    lessons,        \* Lesson table: Seq of [module, order, duration_minutes]
    enrollments,    \* Enrollment table: Seq of [student, course, enrolled_at, completed_at, is_active]
    progress,       \* Progress table: Seq of [enrollment, lesson, completed, completed_at]
    response,       \* the response of the last finished request
    reqs,           \* enroll requests in flight (SpecConc): request id -> frame
    prev,           \* history: the Enrollment and Progress tables before the last request
    lessons_at_enroll \* history: per enrollment, the lessons of its course when the row was inserted

vars == <<courses, modules, lessons, enrollments, progress, response, reqs, prev, lessons_at_enroll>>

----------------------------------------------------------------------------
(* Bounds *)
MaxLessons == 2
MaxEnrollments == 2
MaxReqs == 2
MaxCatalog == 4

----------------------------------------------------------------------------
(* Values *)
NULL == "NULL"
\* timezone.now(): the claims only distinguish a timestamp from NULL
now == "T"

(* Users and their role (models.User.role) *)
Students == {"s1", "s2"}
Instructors == {"i1", "i2"}
Anonymous == "anon"
Users == Students \cup Instructors \cup {Anonymous}

is_authenticated(u) == u # Anonymous
is_student(u) == u \in Students
is_instructor(u) == u \in Instructors

(* Course fixtures: slug -> [status, instructor] *)
Courses == {"c1", "c2", "c3"}
CourseStatus == [c \in Courses |-> IF c = "c3" THEN "draft" ELSE "published"]
CourseInstructor == [c \in Courses |-> IF c = "c3" THEN "i2" ELSE "i1"]
Slugs == Courses \cup {"missing"}
\* Course.LEVEL_CHOICES (two of them)
Levels == {"beginner", "advanced"}
\* the Course rows of the fixtures (CourseFactory: level = 'beginner')
InitialCourses ==
    [c \in Courses |->
        [instructor |-> CourseInstructor[c], status |-> CourseStatus[c], level |-> "beginner"]]
\* the slug of a course created by a later request
NewSlug == "c4"

(* Module fixtures: id -> [course, order]; Module.Meta.ordering = ['order'] *)
Modules == 1..5
ModuleCourse == <<"c1", "c1", "c2", "c3", "c1">>
ModuleOrder == <<1, 2, 1, 1, 3>>
\* the modules of the fixtures; module 5 is created by a later request
InitialModules == 1..4
ModuleIds == 1..6
Orders == {1, 2}
Durations == {10}
\* durations of lessons added to the fixture catalog: the default of the field
LateDurations == {0}
\* lesson_id arguments of requests: every lesson of the largest catalog and one more
LessonIds == 1..(MaxLessons + 2)

----------------------------------------------------------------------------
(* The database as one value, so that a view is a function of it *)
DB == [courses |-> courses, modules |-> modules, lessons |-> lessons, enrollments |-> enrollments, progress |-> progress,
       lessons_at_enroll |-> lessons_at_enroll]

\* Lesson.objects.filter(module__course=course)
LessonsOfCourse(db, course) ==
    {l \in DOMAIN db.lessons : ModuleCourse[db.lessons[l].module] = course}

\* module.lessons.count()
ModuleLessonCount(db, m) ==
    Cardinality({l \in DOMAIN db.lessons : db.lessons[l].module = m})

RECURSIVE SumOver(_, _)
SumOver(f, S) ==
    IF S = {} THEN 0
    ELSE LET x == CHOOSE y \in S : TRUE IN f[x] + SumOver(f, S \ {x})

\* Course.total_lessons
total_lessons(db, course) ==
    SumOver([m \in Modules |-> ModuleLessonCount(db, m)],
            {m \in db.modules : ModuleCourse[m] = course})

\* the lessons of module m that count for the duration (if lesson.duration_minutes)
TimedLessons(db, m) ==
    {l \in DOMAIN db.lessons : db.lessons[l].module = m /\ db.lessons[l].duration_minutes # 0}

\* bug: the sum runs over the lessons of every course
total_duration_all_courses(db, course) ==
    SumOver([m \in Modules |->
                SumOver([l \in DOMAIN db.lessons |-> db.lessons[l].duration_minutes],
                        TimedLessons(db, m))],
            db.modules)

\* Course.total_duration
total_duration(db, course) ==
    SumOver([m \in Modules |->
                SumOver([l \in DOMAIN db.lessons |-> db.lessons[l].duration_minutes],
                        TimedLessons(db, m))],
            {m \in db.modules : ModuleCourse[m] = course})

\* enrollment.progress_records
progress_records(db, e) ==
    {p \in DOMAIN db.progress : db.progress[p].enrollment = e}

\* bug: the filter on completed is missing
completed_records_unfiltered(db, e) == progress_records(db, e)

\* enrollment.progress_records.filter(completed=True)
completed_records(db, e) ==
    {p \in progress_records(db, e) : db.progress[p].completed}

\* Enrollment.is_completed: the denormalised flag, not recomputed from the rows
is_completed(db, e) == db.enrollments[e].completed_at # NULL

\* round(x, 2) of x = 100 * c / t, in hundredths of a percent (round half to even)
Round2(c, t) ==
    LET n == 10000 * c
        q == n \div t
        r == n % t
    IN  IF 2 * r > t \/ (2 * r = t /\ q % 2 = 1) THEN q + 1 ELSE q

\* Enrollment.progress_percentage, in hundredths of a percent (10000 is 100.0)
progress_percentage(db, e) ==
    LET total == Cardinality(progress_records(db, e))
        completed == Cardinality(completed_records(db, e))
    IN  IF total = 0 THEN 0 ELSE Round2(completed, total)

\* order_by('lesson__module__order', 'lesson__order') on progress rows
module_lesson_before(db, a, b) ==
    \/ ModuleOrder[db.lessons[a].module] < ModuleOrder[db.lessons[b].module]
    \/ /\ ModuleOrder[db.lessons[a].module] = ModuleOrder[db.lessons[b].module]
       /\ db.lessons[a].order < db.lessons[b].order

\* no lesson (None)
NoLesson == 0

\* bug: the first incomplete row in primary-key order
get_next_lesson_by_id(db, e) ==
    LET incomplete == progress_records(db, e) \ completed_records(db, e)
    IN  IF incomplete = {} THEN NoLesson
        ELSE db.progress[CHOOSE p \in incomplete : \A q \in incomplete : p <= q].lesson

\* Enrollment.get_next_lesson: the lesson of the first incomplete row by
\* (module.order, lesson.order), None when every row is completed
get_next_lesson(db, e) ==
    LET incomplete == progress_records(db, e) \ completed_records(db, e)
    IN  IF incomplete = {} THEN NoLesson
        ELSE db.progress[CHOOSE p \in incomplete : \A q \in incomplete :
                ~module_lesson_before(db, db.progress[q].lesson, db.progress[p].lesson)].lesson

----------------------------------------------------------------------------
(* Rows *)
\* Enrollment(student=..., course=...): enrolled_at is set on insert,
\* completed_at is null and is_active is true by default
NewEnrollment(student, course) ==
    [student |-> student, course |-> course, enrolled_at |-> now,
     completed_at |-> NULL, is_active |-> TRUE]

\* Progress(enrollment=instance, lesson=lesson): incomplete by default
NewProgress(e, l) ==
    [enrollment |-> e, lesson |-> l, completed |-> FALSE, completed_at |-> NULL]

\* Lesson.Meta.ordering = ['order']; rows of equal order in primary-key order
LessonBefore(db, a, b) ==
    \/ db.lessons[a].order < db.lessons[b].order
    \/ db.lessons[a].order = db.lessons[b].order /\ a < b

RECURSIVE OrderedLessons(_, _)
OrderedLessons(db, S) ==
    IF S = {} THEN <<>>
    ELSE LET first == CHOOSE a \in S : \A b \in S \ {a} : LessonBefore(db, a, b)
         IN  <<first>> \o OrderedLessons(db, S \ {first})

\* Progress.objects.bulk_create(progress_records)
bulk_create(db, rows) == [db EXCEPT !.progress = @ \o rows]

\* bug: the receiver forgets the course filter (Lesson.objects.all())
signal_lessons_unfiltered(db, instance) ==
    OrderedLessons(db, DOMAIN db.lessons)

\* lessons = Lesson.objects.filter(module__course=course), evaluated in order
signal_lessons(db, instance) ==
    OrderedLessons(db, LessonsOfCourse(db, db.enrollments[instance].course))

\* [Progress(enrollment=instance, lesson=lesson) for lesson in lessons]
signal_rows(instance, ls) == [i \in 1..Len(ls) |-> NewProgress(instance, ls[i])]

\* bug: the receiver tests `if not created`
create_progress_records_unless_created(db, instance, created) ==
    IF ~created
    THEN bulk_create(db, signal_rows(instance, signal_lessons(db, instance)))
    ELSE db

\* signals.create_progress_records, the post_save receiver of Enrollment
create_progress_records(db, instance, created) ==
    IF created
    THEN bulk_create(db, signal_rows(instance, signal_lessons(db, instance)))
    ELSE db

\* the INSERT of Enrollment.objects.create, committed before post_save is sent
insert_enrollment(db, student, course) ==
    [db EXCEPT !.enrollments = Append(@, NewEnrollment(student, course)),
               !.lessons_at_enroll = Append(@, LessonsOfCourse(db, course))]

\* Enrollment.objects.create(student=..., course=...): INSERT, then post_save
Enrollment_create(db, student, course) ==
    LET db1 == insert_enrollment(db, student, course)
    IN  create_progress_records(db1, Len(db1.enrollments), TRUE)

\* bug: the existence check only sees active enrollments (is_active=True)
already_enrolled_active_only(db, user, course) ==
    \E e \in DOMAIN db.enrollments :
        /\ db.enrollments[e].student = user /\ db.enrollments[e].course = course
        /\ db.enrollments[e].is_active

\* Enrollment.objects.filter(student=request.user, course=course).exists()
already_enrolled(db, user, course) ==
    \E e \in DOMAIN db.enrollments :
        db.enrollments[e].student = user /\ db.enrollments[e].course = course

\* bug: the course lookup ignores the status
published_course_any_status(slug) == slug \in Courses

\* get_object_or_404(Course, slug=slug, status='published')
published_course(slug) == slug \in Courses /\ CourseStatus[slug] = "published"

Result(status, db, eid, lesson) ==
    [status |-> status, db |-> db, eid |-> eid, lesson |-> lesson]

\* views.enroll_in_course
enroll_in_course(db, user, slug) ==
    IF ~is_authenticated(user) THEN Result(401, db, 0, 0)
    ELSE IF ~is_student(user) THEN Result(403, db, 0, 0)
    ELSE IF ~published_course(slug) THEN Result(404, db, 0, 0)
    ELSE IF already_enrolled(db, user, slug) THEN Result(400, db, 0, 0)
    ELSE LET db1 == Enrollment_create(db, user, slug)
         IN  Result(201, db1, Len(db1.enrollments), 0)

----------------------------------------------------------------------------
(* Lesson completion *)
\* bug: the enrollment is looked up by id alone
owned_enrollment_by_id(db, user, eid) == eid \in DOMAIN db.enrollments

\* get_object_or_404(Enrollment, id=enrollment_id, student=request.user)
owned_enrollment(db, user, eid) ==
    eid \in DOMAIN db.enrollments /\ db.enrollments[eid].student = user

\* the rows matched by get_object_or_404(Progress, enrollment=enrollment, lesson_id=lesson_id)
progress_of(db, eid, lid) ==
    {p \in progress_records(db, eid) : db.progress[p].lesson = lid}

\* Progress.mark_complete: complete the row, then cascade to the enrollment
mark_complete(db, p) ==
    LET e == db.progress[p].enrollment
        db1 == [db EXCEPT !.progress[p].completed = TRUE,
                          !.progress[p].completed_at = now]
    IN  IF \A q \in progress_records(db1, e) : db1.progress[q].completed
        THEN [db1 EXCEPT !.enrollments[e].completed_at = now]
        ELSE db1

\* bug: the view saves the row itself and skips the cascade of mark_complete
complete_lesson_without_cascade(db, user, eid, lid) ==
    IF ~is_authenticated(user) THEN Result(401, db, 0, 0)
    ELSE IF ~owned_enrollment(db, user, eid) THEN Result(404, db, 0, 0)
    ELSE IF progress_of(db, eid, lid) = {} THEN Result(404, db, 0, 0)
    ELSE IF Cardinality(progress_of(db, eid, lid)) > 1 THEN Result(500, db, 0, 0)
    ELSE LET p == CHOOSE q \in progress_of(db, eid, lid) : TRUE
         IN  Result(200, [db EXCEPT !.progress[p].completed = TRUE,
                                    !.progress[p].completed_at = now], eid, lid)

\* bug: the view refuses a lesson that is already completed
complete_lesson_rejects_repeat(db, user, eid, lid) ==
    IF ~is_authenticated(user) THEN Result(401, db, 0, 0)
    ELSE IF ~owned_enrollment(db, user, eid) THEN Result(404, db, 0, 0)
    ELSE IF progress_of(db, eid, lid) = {} THEN Result(404, db, 0, 0)
    ELSE IF Cardinality(progress_of(db, eid, lid)) > 1 THEN Result(500, db, 0, 0)
    ELSE LET p == CHOOSE q \in progress_of(db, eid, lid) : TRUE
         IN  IF db.progress[p].completed THEN Result(400, db, 0, 0)
             ELSE Result(200, mark_complete(db, p), eid, lid)

\* views.complete_lesson; an anonymous POST is refused by the default permission
\* class of the project (IsAuthenticatedOrReadOnly) before the view runs
complete_lesson(db, user, eid, lid) ==
    IF ~is_authenticated(user) THEN Result(401, db, 0, 0)
    ELSE IF ~owned_enrollment(db, user, eid) THEN Result(404, db, 0, 0)
    ELSE IF progress_of(db, eid, lid) = {} THEN Result(404, db, 0, 0)
    ELSE IF Cardinality(progress_of(db, eid, lid)) > 1 THEN Result(500, db, 0, 0)
    ELSE LET p == CHOOSE q \in progress_of(db, eid, lid) : TRUE
         IN  Result(200, mark_complete(db, p), eid, lid)

\* bug: the view resets the row and never touches the enrollment
reset_without_cascade(db, user, eid, lid) ==
    IF ~is_authenticated(user) THEN Result(401, db, 0, 0)
    ELSE IF ~owned_enrollment(db, user, eid) THEN Result(404, db, 0, 0)
    ELSE IF progress_of(db, eid, lid) = {} THEN Result(404, db, 0, 0)
    ELSE IF Cardinality(progress_of(db, eid, lid)) > 1 THEN Result(500, db, 0, 0)
    ELSE LET p == CHOOSE q \in progress_of(db, eid, lid) : TRUE
         IN  Result(200, [db EXCEPT !.progress[p].completed = FALSE,
                                    !.progress[p].completed_at = NULL], eid, lid)

\* bug: the view clears the enrollment only when no completed row is left
reset_clears_when_empty(db, user, eid, lid) ==
    IF ~is_authenticated(user) THEN Result(401, db, 0, 0)
    ELSE IF ~owned_enrollment(db, user, eid) THEN Result(404, db, 0, 0)
    ELSE IF progress_of(db, eid, lid) = {} THEN Result(404, db, 0, 0)
    ELSE IF Cardinality(progress_of(db, eid, lid)) > 1 THEN Result(500, db, 0, 0)
    ELSE LET p == CHOOSE q \in progress_of(db, eid, lid) : TRUE
             db1 == [db EXCEPT !.progress[p].completed = FALSE,
                               !.progress[p].completed_at = NULL]
         IN  IF db.enrollments[eid].completed_at # NULL /\ completed_records(db1, eid) = {}
             THEN Result(200, [db1 EXCEPT !.enrollments[eid].completed_at = NULL], eid, lid)
             ELSE Result(200, db1, eid, lid)

\* bug: the view clears the flag of the row and keeps its completed_at
reset_keeps_timestamp(db, user, eid, lid) ==
    IF ~is_authenticated(user) THEN Result(401, db, 0, 0)
    ELSE IF ~owned_enrollment(db, user, eid) THEN Result(404, db, 0, 0)
    ELSE IF progress_of(db, eid, lid) = {} THEN Result(404, db, 0, 0)
    ELSE IF Cardinality(progress_of(db, eid, lid)) > 1 THEN Result(500, db, 0, 0)
    ELSE LET p == CHOOSE q \in progress_of(db, eid, lid) : TRUE
             db1 == [db EXCEPT !.progress[p].completed = FALSE]
         IN  IF db.enrollments[eid].completed_at # NULL
             THEN Result(200, [db1 EXCEPT !.enrollments[eid].completed_at = NULL], eid, lid)
             ELSE Result(200, db1, eid, lid)

\* views.reset_lesson_progress
reset_lesson_progress(db, user, eid, lid) ==
    IF ~is_authenticated(user) THEN Result(401, db, 0, 0)
    ELSE IF ~owned_enrollment(db, user, eid) THEN Result(404, db, 0, 0)
    ELSE IF progress_of(db, eid, lid) = {} THEN Result(404, db, 0, 0)
    ELSE IF Cardinality(progress_of(db, eid, lid)) > 1 THEN Result(500, db, 0, 0)
    ELSE LET p == CHOOSE q \in progress_of(db, eid, lid) : TRUE
             db1 == [db EXCEPT !.progress[p].completed = FALSE,
                               !.progress[p].completed_at = NULL]
         IN  IF db.enrollments[eid].completed_at # NULL
             THEN Result(200, [db1 EXCEPT !.enrollments[eid].completed_at = NULL], eid, lid)
             ELSE Result(200, db1, eid, lid)

\* bug: the view does not test is_completed
unenroll_allows_completed(db, user, eid) ==
    IF ~is_authenticated(user) THEN Result(401, db, 0, 0)
    ELSE IF ~(owned_enrollment(db, user, eid) /\ db.enrollments[eid].is_active)
         THEN Result(404, db, 0, 0)
    ELSE Result(200, [db EXCEPT !.enrollments[eid].is_active = FALSE], eid, 0)

\* views.unenroll_from_course
unenroll_from_course(db, user, eid) ==
    IF ~is_authenticated(user) THEN Result(401, db, 0, 0)
    ELSE IF ~(owned_enrollment(db, user, eid) /\ db.enrollments[eid].is_active)
         THEN Result(404, db, 0, 0)
    ELSE IF is_completed(db, eid) THEN Result(400, db, 0, 0)
    ELSE Result(200, [db EXCEPT !.enrollments[eid].is_active = FALSE], eid, 0)

----------------------------------------------------------------------------
(* Student dashboard and certificate: GET requests, nothing is written *)
\* bug: the dashboard takes the deactivated enrollments too
dashboard_enrollments_with_inactive(db, student) ==
    {e \in DOMAIN db.enrollments : db.enrollments[e].student = student}

\* Enrollment.objects.filter(student=student, is_active=True)
dashboard_enrollments(db, student) ==
    {e \in DOMAIN db.enrollments :
        db.enrollments[e].student = student /\ db.enrollments[e].is_active}

\* Enrollment.get_completed_lessons_count
get_completed_lessons_count(db, e) == Cardinality(completed_records(db, e))

\* StudentDashboardView.get: the counts of 'stats' (the minutes spent are a
\* column of Progress that no request of this model writes, and are left out)
student_dashboard(db, user) ==
    IF ~is_authenticated(user) THEN [status |-> 401]
    ELSE IF ~is_student(user) THEN [status |-> 403]
    ELSE LET enrollments_qs == dashboard_enrollments(db, user)
             active_enrollments == {e \in enrollments_qs : db.enrollments[e].completed_at = NULL}
             completed_enrollments == {e \in enrollments_qs : db.enrollments[e].completed_at # NULL}
         IN  [status |-> 200,
              total_courses |-> Cardinality(enrollments_qs),
              active_courses |-> Cardinality(active_enrollments),
              completed_courses |-> Cardinality(completed_enrollments),
              total_lessons_completed |->
                  SumOver([e \in enrollments_qs |-> get_completed_lessons_count(db, e)],
                          enrollments_qs)]

\* bug: the certificate is refused when some row is incomplete, whatever
\* completed_at is
certificate_on_rows(db, user, eid) ==
    IF ~is_authenticated(user) THEN Result(500, db, 0, 0)
    ELSE IF ~owned_enrollment(db, user, eid) THEN Result(404, db, 0, 0)
    ELSE IF \E p \in progress_records(db, eid) : ~db.progress[p].completed
         THEN Result(400, db, 0, 0)
    ELSE Result(200, db, eid, 0)

\* views.enrollment_certificate. GET passes IsAuthenticatedOrReadOnly without
\* credentials; the lookup student=AnonymousUser then raises (500).
enrollment_certificate(db, user, eid) ==
    IF ~is_authenticated(user) THEN Result(500, db, 0, 0)
    ELSE IF ~owned_enrollment(db, user, eid) THEN Result(404, db, 0, 0)
    ELSE IF ~is_completed(db, eid) THEN Result(400, db, 0, 0)
    ELSE Result(200, db, eid, 0)

----------------------------------------------------------------------------
(* Catalog *)
\* unique_together = ['module', 'order'] of Lesson
order_taken(db, module, order) ==
    \E l \in DOMAIN db.lessons :
        db.lessons[l].module = module /\ db.lessons[l].order = order

\* bug: the new lesson gets an incomplete progress row in every enrollment of its course
create_lesson_with_backfill(db, user, module_id, order, duration) ==
    IF ~is_authenticated(user) THEN Result(401, db, 0, 0)
    ELSE IF ~is_instructor(user) THEN Result(403, db, 0, 0)
    ELSE IF module_id \notin db.modules THEN Result(404, db, 0, 0)
    ELSE IF CourseInstructor[ModuleCourse[module_id]] # user THEN Result(403, db, 0, 0)
    ELSE IF order_taken(db, module_id, order) THEN Result(400, db, 0, 0)
    ELSE LET l == Len(db.lessons) + 1
             es == {x \in DOMAIN db.enrollments :
                       db.enrollments[x].course = ModuleCourse[module_id]}
             rows == [i \in 1..Cardinality(es) |->
                         NewProgress(CHOOSE x \in es :
                                        Cardinality({y \in es : y < x}) = i - 1, l)]
         IN  Result(201,
                    [db EXCEPT !.lessons = Append(@, [module |-> module_id, order |-> order,
                                                      duration_minutes |-> duration]),
                               !.progress = @ \o rows],
                    0, l)

\* views.LessonCreateView (permission classes, then perform_create); a second
\* lesson at the same (module, order) is refused by unique_together
create_lesson(db, user, module_id, order, duration) ==
    IF ~is_authenticated(user) THEN Result(401, db, 0, 0)
    ELSE IF ~is_instructor(user) THEN Result(403, db, 0, 0)
    ELSE IF module_id \notin db.modules THEN Result(404, db, 0, 0)
    ELSE IF CourseInstructor[ModuleCourse[module_id]] # user THEN Result(403, db, 0, 0)
    ELSE IF order_taken(db, module_id, order) THEN Result(400, db, 0, 0)
    ELSE Result(201,
                [db EXCEPT !.lessons = Append(@, [module |-> module_id, order |-> order,
                                                  duration_minutes |-> duration])],
                0, Len(db.lessons) + 1)

\* unique_together = ['course', 'order'] of Module
module_order_taken(db, course, order) ==
    \E m \in db.modules : ModuleCourse[m] = course /\ ModuleOrder[m] = order

\* views.ModuleCreateView (permission classes, then perform_create) for the
\* module m of the fixtures: POST /api/courses/{ModuleCourse[m]}/modules/create/
\* with order ModuleOrder[m]
create_module(db, user, m) ==
    IF ~is_authenticated(user) THEN Result(401, db, 0, 0)
    ELSE IF ~is_instructor(user) THEN Result(403, db, 0, 0)
    ELSE IF \/ ModuleCourse[m] \notin DOMAIN db.courses
            \/ db.courses[ModuleCourse[m]].instructor # user THEN Result(404, db, 0, 0)
    ELSE IF module_order_taken(db, ModuleCourse[m], ModuleOrder[m]) THEN Result(400, db, 0, 0)
    ELSE Result(201, [db EXCEPT !.modules = @ \cup {m}], 0, 0)

----------------------------------------------------------------------------
(* Course views *)
\* bug: any instructor passes the object permission
any_instructor(db, user, slug) == is_instructor(user)

\* IsCourseInstructor.has_object_permission: obj.instructor == request.user,
\* whatever the method of the request
IsCourseInstructor(db, user, slug) == db.courses[slug].instructor = user

\* APIView.permission_denied: NotAuthenticated (401) without credentials,
\* PermissionDenied (403) with them
permission_denied(user) == IF is_authenticated(user) THEN 403 ELSE 401

\* CourseDetailView GET: get_object (lookup by slug, then the object permissions)
retrieve_course(db, user, slug) ==
    IF slug \notin DOMAIN db.courses THEN Result(404, db, 0, 0)
    ELSE IF ~IsCourseInstructor(db, user, slug) THEN Result(permission_denied(user), db, 0, 0)
    ELSE Result(200, db, 0, 0)

\* CourseDetailView PUT with the level of the request data: IsAuthenticatedOrReadOnly,
\* then get_object, then the save of the serializer
update_course(db, user, slug, level) ==
    IF ~is_authenticated(user) THEN Result(401, db, 0, 0)
    ELSE IF slug \notin DOMAIN db.courses THEN Result(404, db, 0, 0)
    ELSE IF ~IsCourseInstructor(db, user, slug) THEN Result(403, db, 0, 0)
    ELSE Result(200, [db EXCEPT !.courses[slug].level = level], 0, 0)

\* CourseDetailView DELETE: the modules of the course go with it (on_delete=CASCADE);
\* a course that has lessons or enrollments is not deleted in this model
destroy_course(db, user, slug) ==
    IF ~is_authenticated(user) THEN Result(401, db, 0, 0)
    ELSE IF slug \notin DOMAIN db.courses THEN Result(404, db, 0, 0)
    ELSE IF ~IsCourseInstructor(db, user, slug) THEN Result(403, db, 0, 0)
    ELSE Result(204,
                [db EXCEPT !.courses = [c \in DOMAIN @ \ {slug} |-> @[c]],
                           !.modules = {m \in @ : ModuleCourse[m] # slug}],
                0, 0)

\* CanCreateCourse.has_permission for POST
CanCreateCourse(user) == is_authenticated(user) /\ is_instructor(user)

\* CourseListView POST: CanCreateCourse, the unique slug, then the new row with
\* the caller as instructor
create_course(db, user, slug, level) ==
    IF ~CanCreateCourse(user) THEN Result(permission_denied(user), db, 0, 0)
    ELSE IF slug \in DOMAIN db.courses THEN Result(400, db, 0, 0)
    ELSE Result(201,
                [db EXCEPT !.courses =
                    [c \in DOMAIN @ \cup {slug} |->
                        IF c = slug
                        THEN [instructor |-> user, status |-> "draft", level |-> level]
                        ELSE @[c]]],
                0, 0)

----------------------------------------------------------------------------
(* Progress in bulk: the annotations of EnrollmentFilter *)
\* EnrollmentListView.get_queryset: the caller's active enrollments
get_queryset(db, user) ==
    {e \in DOMAIN db.enrollments :
        db.enrollments[e].student = user /\ db.enrollments[e].is_active}

\* total_progress=Count('progress_records', distinct=True)
total_progress(db, e) == Cardinality(progress_records(db, e))

\* completed_progress=Count('progress_records', filter=Q(progress_records__completed=True))
completed_progress(db, e) == Cardinality(completed_records(db, e))

\* bug: no When(total_progress=0) branch, so no rows gives 0 / 0 (no value)
annotated_progress_unguarded(db, e) ==
    [num |-> 100 * completed_progress(db, e), den |-> total_progress(db, e)]

\* the annotated progress_percentage: Value(0.0) when there are no rows, else
\* completed / total * 100 as a float, kept here as the exact fraction num / den
\* of a percentage; the expression applies no rounding
annotated_progress(db, e) ==
    IF total_progress(db, e) = 0 THEN [num |-> 0, den |-> 1]
    ELSE [num |-> 100 * completed_progress(db, e), den |-> total_progress(db, e)]

\* filter_progress_min: progress_percentage__gte=value, value in hundredths of a percent
filter_progress_min(db, queryset, value) ==
    {e \in queryset :
        100 * annotated_progress(db, e).num >= value * annotated_progress(db, e).den}

\* filter_progress_max: progress_percentage__lte=value
filter_progress_max(db, queryset, value) ==
    {e \in queryset :
        100 * annotated_progress(db, e).num <= value * annotated_progress(db, e).den}

\* ?progress_min= / ?progress_max= values, in hundredths of a percent
FilterValues == {0, 3333, 3334, 5000, 6666, 6667, 10000}

----------------------------------------------------------------------------
(* The state machine *)
NoResponse == [op |-> "none", status |-> 0, eid |-> 0, lesson |-> 0]
Idle == [pc |-> "idle", op |-> "none", user |-> Anonymous, course |-> "missing",
         eid |-> 0, lessons |-> <<>>, row |-> 0,
         enrollment |-> NewEnrollment(Anonymous, "missing"), status |-> 0]
Tables == [enrollments |-> enrollments, progress |-> progress]

Init ==
    /\ courses = InitialCourses
    /\ modules = InitialModules
    /\ lessons = <<>>
    /\ enrollments = <<>>
    /\ progress = <<>>
    /\ lessons_at_enroll = <<>>
    /\ response = NoResponse
    /\ prev = [enrollments |-> <<>>, progress |-> <<>>]
    /\ reqs = [r \in 1..MaxReqs |-> Idle]

\* the clients that send requests; i2 owns the draft course and is never logged in
Clients == Users \ {"i2"}
Ok == {200, 201, 204}

\* a request returns successfully: its writes are in the database, its response
\* is sent. A request that is refused writes nothing (see the views above).
Commit(op, r) ==
    /\ r.status \in Ok
    /\ prev' = Tables
    /\ courses' = r.db.courses
    /\ modules' = r.db.modules
    /\ lessons' = r.db.lessons
    /\ enrollments' = r.db.enrollments
    /\ progress' = r.db.progress
    /\ lessons_at_enroll' = r.db.lessons_at_enroll
    /\ response' = [op |-> op, status |-> r.status, eid |-> r.eid, lesson |-> r.lesson]
    /\ UNCHANGED reqs

\* POST /api/courses/{slug}/enroll/
Enroll ==
    \E user \in Clients, slug \in Slugs :
        /\ Len(enrollments) < MaxEnrollments
        /\ Commit("enroll", enroll_in_course(DB, user, slug))

\* POST /api/enrollments/{enrollment_id}/lessons/{lesson_id}/complete/
CompleteLesson ==
    \E user \in Clients, eid \in 1..MaxEnrollments, lid \in LessonIds :
        /\ eid \in DOMAIN enrollments
        /\ Commit("complete_lesson", complete_lesson(DB, user, eid, lid))

\* POST /api/enrollments/{enrollment_id}/lessons/{lesson_id}/reset/
ResetLesson ==
    \E user \in Clients, eid \in 1..MaxEnrollments, lid \in LessonIds :
        /\ eid \in DOMAIN enrollments
        /\ Commit("reset_lesson", reset_lesson_progress(DB, user, eid, lid))

\* POST /api/enrollments/{enrollment_id}/unenroll/
Unenroll ==
    \E user \in Clients, eid \in 1..MaxEnrollments :
        /\ eid \in DOMAIN enrollments
        /\ Commit("unenroll", unenroll_from_course(DB, user, eid))

\* POST /api/modules/{module_id}/lessons/create/
CreateLesson ==
    \E user \in Clients, module_id \in ModuleIds, order \in Orders, duration \in Durations :
        /\ Len(lessons) < MaxLessons
        /\ Commit("create_lesson", create_lesson(DB, user, module_id, order, duration))

Next == Enroll \/ CompleteLesson \/ ResetLesson \/ Unenroll \/ CreateLesson

Spec == Init /\ [][Next]_vars

----------------------------------------------------------------------------
(* Concurrent enroll requests: one action per statement of enroll_in_course  *)
(* and of the post_save receiver, each committed on its own (autocommit).    *)
Frame(r, f) == reqs' = [reqs EXCEPT ![r] = f]
Finish(r, status) == Frame(r, [reqs[r] EXCEPT !.pc = "done", !.status = status])
DbUnchanged == UNCHANGED <<courses, modules, lessons, enrollments, progress, lessons_at_enroll>>

\* lines 215-227: authentication, role and the course lookup
EnrollStart(r) ==
    /\ reqs[r].pc = "idle"
    /\ \E user \in Clients, slug \in Slugs :
        IF ~is_authenticated(user) THEN Frame(r, [Idle EXCEPT !.pc = "done", !.status = 401])
        ELSE IF ~is_student(user) THEN Frame(r, [Idle EXCEPT !.pc = "done", !.status = 403])
        ELSE IF ~published_course(slug) THEN Frame(r, [Idle EXCEPT !.pc = "done", !.status = 404])
        ELSE Frame(r, [Idle EXCEPT !.pc = "check", !.user = user, !.course = slug])
    /\ DbUnchanged /\ UNCHANGED <<response, prev>>

\* lines 229-234: the existence check
EnrollCheck(r) ==
    /\ reqs[r].pc = "check"
    /\ IF already_enrolled(DB, reqs[r].user, reqs[r].course)
       THEN Finish(r, 400)
       ELSE Frame(r, [reqs[r] EXCEPT !.pc = "insert"])
    /\ DbUnchanged /\ UNCHANGED <<response, prev>>

\* lines 237-240: the INSERT of Enrollment.objects.create
EnrollInsert(r) ==
    /\ reqs[r].pc = "insert"
    /\ LET db1 == insert_enrollment(DB, reqs[r].user, reqs[r].course)
       IN  /\ enrollments' = db1.enrollments
           /\ lessons_at_enroll' = db1.lessons_at_enroll
           /\ Frame(r, [reqs[r] EXCEPT !.pc = "signal", !.eid = Len(db1.enrollments)])
    /\ prev' = Tables
    /\ UNCHANGED <<courses, modules, lessons, progress, response>>

\* signals.py line 12: the lessons query of the receiver
SignalQuery(r) ==
    /\ reqs[r].pc = "signal"
    /\ Frame(r, [reqs[r] EXCEPT !.pc = "bulk", !.lessons = signal_lessons(DB, reqs[r].eid)])
    /\ DbUnchanged /\ UNCHANGED <<response, prev>>

\* signals.py lines 15-21: bulk_create, then the 201 response of the view
SignalBulk(r) ==
    /\ reqs[r].pc = "bulk"
    /\ progress' = bulk_create(DB, signal_rows(reqs[r].eid, reqs[r].lessons)).progress
    /\ Finish(r, 201)
    /\ prev' = Tables
    /\ response' = [op |-> "enroll", status |-> 201, eid |-> reqs[r].eid, lesson |-> 0]
    /\ UNCHANGED <<courses, modules, lessons, enrollments, lessons_at_enroll>>

NextConc ==
    \/ \E r \in 1..MaxReqs : EnrollStart(r)
    \/ \E r \in 1..MaxReqs : EnrollCheck(r)
    \/ \E r \in 1..MaxReqs : EnrollInsert(r)
    \/ \E r \in 1..MaxReqs : SignalQuery(r)
    \/ \E r \in 1..MaxReqs : SignalBulk(r)
    \/ CreateLesson

SpecConc == Init /\ [][NextConc]_vars

----------------------------------------------------------------------------
(* The catalog of the test suite: the course fixture of conftest.py, with    *)
(* three lessons in two modules, and lessons added to it later.              *)
ConftestLessons ==
    << [module |-> 1, order |-> 1, duration_minutes |-> 10],
       [module |-> 1, order |-> 2, duration_minutes |-> 15],
       [module |-> 2, order |-> 1, duration_minutes |-> 20] >>

InitFixture ==
    /\ courses = InitialCourses
    /\ modules = InitialModules
    /\ lessons = ConftestLessons
    /\ enrollments = <<>>
    /\ progress = <<>>
    /\ lessons_at_enroll = <<>>
    /\ response = NoResponse
    /\ prev = [enrollments |-> <<>>, progress |-> <<>>]
    /\ reqs = [r \in 1..MaxReqs |-> Idle]

\* POST /api/modules/{module_id}/lessons/create/ on the fixture catalog
CreateLessonLate ==
    \E user \in Clients, module_id \in ModuleIds, order \in Orders, duration \in LateDurations :
        /\ Len(lessons) < MaxCatalog
        /\ Commit("create_lesson", create_lesson(DB, user, module_id, order, duration))

\* POST /api/courses/{slug}/modules/create/
CreateModule ==
    \E user \in Clients, m \in Modules :
        /\ m \notin modules
        /\ Commit("create_module", create_module(DB, user, m))

NextFixture ==
    Enroll \/ CompleteLesson \/ ResetLesson \/ CreateLessonLate \/ CreateModule

SpecFixture == InitFixture /\ [][NextFixture]_vars

----------------------------------------------------------------------------
(* Concurrent complete and reset requests on one enrollment: one action per  *)
(* statement, each committed on its own (autocommit).                        *)
\* Progress.mark_complete, first statement: completed, completed_at, save()
save_completed(db, p) ==
    [db EXCEPT !.progress[p].completed = TRUE, !.progress[p].completed_at = now]

\* Progress.mark_complete, second statement: the read over the sibling rows
all_completed(db, e) ==
    \A q \in progress_records(db, e) : db.progress[q].completed

\* bug: the enrollment is never written
set_completed_at_skipped(db, e) == db

\* Progress.mark_complete, third statement: enrollment.completed_at = now, save()
set_completed_at(db, e) == [db EXCEPT !.enrollments[e].completed_at = now]

\* progress.completed = False; progress.completed_at = None; progress.save()
save_reset(db, p) ==
    [db EXCEPT !.progress[p].completed = FALSE, !.progress[p].completed_at = NULL]

\* enrollment.completed_at = None; enrollment.save(): the instance read at the
\* start of the request is written back whole
clear_completed_at(db, e, instance) ==
    [db EXCEPT !.enrollments[e] = [instance EXCEPT !.completed_at = NULL]]

\* the course fixture in an otherwise empty database
FixtureDb ==
    [courses |-> InitialCourses, modules |-> InitialModules, lessons |-> ConftestLessons, enrollments |-> <<>>,
     progress |-> <<>>, lessons_at_enroll |-> <<>>]

\* student s1 enrolled in the course (enrollment 1)
Enrolled == enroll_in_course(FixtureDb, "s1", "c1").db

\* the lessons of S completed one request after the other
RECURSIVE CompletedLessons(_, _)
CompletedLessons(db, S) ==
    IF S = {} THEN db
    ELSE LET l == CHOOSE x \in S : TRUE
         IN  CompletedLessons(complete_lesson(db, "s1", 1, l).db, S \ {l})

\* s1 is enrolled and has completed any part of the course
InitRace ==
    \E S \in SUBSET LessonsOfCourse(FixtureDb, "c1") :
        LET db == CompletedLessons(Enrolled, S)
        IN  /\ courses = db.courses
            /\ modules = db.modules
            /\ lessons = db.lessons
            /\ enrollments = db.enrollments
            /\ progress = db.progress
            /\ lessons_at_enroll = db.lessons_at_enroll
            /\ response = NoResponse
            /\ prev = [enrollments |-> db.enrollments, progress |-> db.progress]
            /\ reqs = [r \in 1..MaxReqs |-> Idle]

\* the lookups of both views: enrollment by owner, then the progress row
Lookup(r, op, first) ==
    \E user \in Clients, eid \in 1..MaxEnrollments, lid \in LessonIds :
        LET f == [Idle EXCEPT !.op = op, !.user = user, !.eid = eid]
        IN  IF ~is_authenticated(user) THEN Frame(r, [f EXCEPT !.pc = "done", !.status = 401])
            ELSE IF ~owned_enrollment(DB, user, eid)
                 THEN Frame(r, [f EXCEPT !.pc = "done", !.status = 404])
            ELSE IF progress_of(DB, eid, lid) = {}
                 THEN Frame(r, [f EXCEPT !.pc = "done", !.status = 404])
            ELSE IF Cardinality(progress_of(DB, eid, lid)) > 1
                 THEN Frame(r, [f EXCEPT !.pc = "done", !.status = 500])
            ELSE Frame(r, [f EXCEPT !.pc = first,
                                    !.row = CHOOSE q \in progress_of(DB, eid, lid) : TRUE,
                                    !.enrollment = enrollments[eid]])

\* complete_lesson, lines 275-285
CompleteStart(r) ==
    /\ reqs[r].pc = "idle"
    /\ Lookup(r, "complete_lesson", "c_save")
    /\ DbUnchanged /\ UNCHANGED <<response, prev>>

\* mark_complete: the UPDATE of the row
CompleteSave(r) ==
    /\ reqs[r].pc = "c_save"
    /\ progress' = save_completed(DB, reqs[r].row).progress
    /\ Frame(r, [reqs[r] EXCEPT !.pc = "c_check"])
    /\ UNCHANGED <<courses, modules, lessons, enrollments, lessons_at_enroll, response, prev>>

\* mark_complete: are all rows of the enrollment completed now
CompleteCheck(r) ==
    /\ reqs[r].pc = "c_check"
    /\ IF all_completed(DB, reqs[r].eid)
       THEN Frame(r, [reqs[r] EXCEPT !.pc = "c_cascade"])
       ELSE Finish(r, 200)
    /\ DbUnchanged /\ UNCHANGED <<response, prev>>

\* mark_complete: the UPDATE of the enrollment, then the response
CompleteCascade(r) ==
    /\ reqs[r].pc = "c_cascade"
    /\ enrollments' = set_completed_at(DB, reqs[r].eid).enrollments
    /\ Finish(r, 200)
    /\ UNCHANGED <<courses, modules, lessons, progress, lessons_at_enroll, response, prev>>

\* reset_lesson_progress, lines 659-669
ResetStart(r) ==
    /\ reqs[r].pc = "idle"
    /\ Lookup(r, "reset_lesson", "r_save")
    /\ DbUnchanged /\ UNCHANGED <<response, prev>>

\* lines 671-673: the UPDATE of the row
ResetSave(r) ==
    /\ reqs[r].pc = "r_save"
    /\ progress' = save_reset(DB, reqs[r].row).progress
    /\ Frame(r, [reqs[r] EXCEPT !.pc = "r_cascade"])
    /\ UNCHANGED <<courses, modules, lessons, enrollments, lessons_at_enroll, response, prev>>

\* lines 675-684: the test of the instance read at the start, the UPDATE of
\* the enrollment, then the response
ResetCascade(r) ==
    /\ reqs[r].pc = "r_cascade"
    /\ IF reqs[r].enrollment.completed_at # NULL
       THEN enrollments' = clear_completed_at(DB, reqs[r].eid, reqs[r].enrollment).enrollments
       ELSE UNCHANGED enrollments
    /\ Finish(r, 200)
    /\ UNCHANGED <<courses, modules, lessons, progress, lessons_at_enroll, response, prev>>

NextRace ==
    \/ \E r \in 1..MaxReqs : CompleteStart(r)
    \/ \E r \in 1..MaxReqs : CompleteSave(r)
    \/ \E r \in 1..MaxReqs : CompleteCheck(r)
    \/ \E r \in 1..MaxReqs : CompleteCascade(r)
    \/ \E r \in 1..MaxReqs : ResetStart(r)
    \/ \E r \in 1..MaxReqs : ResetSave(r)
    \/ \E r \in 1..MaxReqs : ResetCascade(r)

SpecRace == InitRace /\ [][NextRace]_vars

----------------------------------------------------------------------------
(* One reset_lesson request (request 1) taken statement by statement while  *)
(* whole requests of the same student are served in between.                *)
NextOverlap ==
    \/ ResetStart(1)
    \/ ResetSave(1)
    \/ ResetCascade(1)
    \/ CompleteLesson
    \/ ResetLesson
    \/ Unenroll

SpecOverlap == InitRace /\ [][NextOverlap]_vars

----------------------------------------------------------------------------
(* The admin site: the bulk actions of EnrollmentAdmin and ProgressAdmin on  *)
(* the rows an administrator has selected.                                   *)
\* EnrollmentAdmin.mark_as_completed: for each selected enrollment, update all
\* its rows, then set its completed_at and save
EnrollmentAdmin_mark_as_completed(db, queryset) ==
    [db EXCEPT
        !.progress = [p \in DOMAIN @ |->
            IF @[p].enrollment \in queryset
            THEN [@[p] EXCEPT !.completed = TRUE, !.completed_at = now]
            ELSE @[p]],
        !.enrollments = [x \in DOMAIN @ |->
            IF x \in queryset THEN [@[x] EXCEPT !.completed_at = now] ELSE @[x]]]

\* EnrollmentAdmin.activate_enrollments / deactivate_enrollments:
\* queryset.update(is_active=...)
set_is_active(db, queryset, value) ==
    [db EXCEPT !.enrollments = [x \in DOMAIN @ |->
        IF x \in queryset THEN [@[x] EXCEPT !.is_active = value] ELSE @[x]]]

\* ProgressAdmin.mark_as_completed: queryset.update(completed=True, completed_at=now)
ProgressAdmin_mark_as_completed(db, queryset) ==
    [db EXCEPT !.progress = [p \in DOMAIN @ |->
        IF p \in queryset THEN [@[p] EXCEPT !.completed = TRUE, !.completed_at = now]
        ELSE @[p]]]

\* bug: the action also clears completed_at of the enrollments of the rows
mark_as_incomplete_with_cascade(db, queryset) ==
    [db EXCEPT !.progress = [p \in DOMAIN @ |->
                  IF p \in queryset THEN [@[p] EXCEPT !.completed = FALSE, !.completed_at = NULL]
                  ELSE @[p]],
               !.enrollments = [e \in DOMAIN @ |->
                  IF \E p \in queryset : db.progress[p].enrollment = e
                  THEN [@[e] EXCEPT !.completed_at = NULL] ELSE @[e]]]

\* ProgressAdmin.mark_as_incomplete: queryset.update(completed=False, completed_at=None)
ProgressAdmin_mark_as_incomplete(db, queryset) ==
    [db EXCEPT !.progress = [p \in DOMAIN @ |->
        IF p \in queryset THEN [@[p] EXCEPT !.completed = FALSE, !.completed_at = NULL]
        ELSE @[p]]]

\* the rows ticked in a change list: an action needs at least one
Selections(table) == SUBSET (DOMAIN table) \ {{}}

AdminMarkEnrollmentsCompleted ==
    \E queryset \in Selections(enrollments) :
        Commit("admin_enrollments_completed",
               Result(200, EnrollmentAdmin_mark_as_completed(DB, queryset), 0, 0))

AdminActivateEnrollments ==
    \E queryset \in Selections(enrollments) :
        Commit("admin_activate", Result(200, set_is_active(DB, queryset, TRUE), 0, 0))

AdminDeactivateEnrollments ==
    \E queryset \in Selections(enrollments) :
        Commit("admin_deactivate", Result(200, set_is_active(DB, queryset, FALSE), 0, 0))

AdminMarkRowsCompleted ==
    \E queryset \in Selections(progress) :
        Commit("admin_rows_completed",
               Result(200, ProgressAdmin_mark_as_completed(DB, queryset), 0, 0))

AdminMarkRowsIncomplete ==
    \E queryset \in Selections(progress) :
        Commit("admin_rows_incomplete",
               Result(200, ProgressAdmin_mark_as_incomplete(DB, queryset), 0, 0))

\* the first module of the course fixture with its two lessons, no enrollment yet
InitAdmin ==
    /\ courses = InitialCourses
    /\ modules = InitialModules
    /\ lessons = SubSeq(ConftestLessons, 1, 2)
    /\ enrollments = <<>>
    /\ progress = <<>>
    /\ lessons_at_enroll = <<>>
    /\ response = NoResponse
    /\ prev = [enrollments |-> <<>>, progress |-> <<>>]
    /\ reqs = [r \in 1..MaxReqs |-> Idle]

NextAdmin ==
    \/ Enroll \/ CompleteLesson \/ ResetLesson \/ Unenroll
    \/ AdminMarkEnrollmentsCompleted
    \/ AdminActivateEnrollments
    \/ AdminDeactivateEnrollments
    \/ AdminMarkRowsCompleted
    \/ AdminMarkRowsIncomplete

SpecAdmin == InitAdmin /\ [][NextAdmin]_vars

----------------------------------------------------------------------------
(* The course catalog: creating, updating and deleting courses. The Lesson   *)
(* and Enrollment tables stay empty here.                                    *)
CourseSlugs == Courses \cup {NewSlug}

\* PUT /api/courses/{slug}/
UpdateCourse ==
    \E user \in Users, slug \in CourseSlugs, level \in Levels :
        /\ slug \in DOMAIN courses
        /\ Commit("update_course", update_course(DB, user, slug, level))

\* DELETE /api/courses/{slug}/
DestroyCourse ==
    \E user \in Users, slug \in CourseSlugs :
        /\ slug \in DOMAIN courses
        /\ Commit("destroy_course", destroy_course(DB, user, slug))

\* POST /api/courses/
CreateCourse ==
    \E user \in Users, slug \in CourseSlugs, level \in Levels :
        /\ slug \notin DOMAIN courses
        /\ Commit("create_course", create_course(DB, user, slug, level))

NextCourses == UpdateCourse \/ DestroyCourse \/ CreateCourse \/ CreateModule

SpecCourses == Init /\ [][NextCourses]_vars

----------------------------------------------------------------------------
(* Properties *)
\* the lessons of a course, read off the Lesson table
CourseLessons(c) == {l \in DOMAIN lessons : ModuleCourse[lessons[l].module] = c}
\* the Progress rows of the pair (e, l)
Rows(tbl, e, l) ==
    {p \in DOMAIN tbl.progress : tbl.progress[p].enrollment = e /\ tbl.progress[p].lesson = l}
RowsOf(tbl, e) == {p \in DOMAIN tbl.progress : tbl.progress[p].enrollment = e}
AllDone(tbl, e) == \A p \in RowsOf(tbl, e) : tbl.progress[p].completed
Flags(tbl) == [p \in DOMAIN tbl.progress |-> tbl.progress[p].completed]
Done(tbl, e) == tbl.enrollments[e].completed_at # NULL

\* C1: right after a successful enroll, the new enrollment has as many progress
\* rows as the course has lessons through its modules (Course.total_lessons),
\* zero included.
C1_ProgressCountIsTotalLessons ==
    response.op = "enroll" =>
        Cardinality(RowsOf(Tables, response.eid))
            = total_lessons(DB, enrollments[response.eid].course)

C1_Witness ==
    /\ response.op = "enroll"
    /\ Cardinality(RowsOf(Tables, response.eid)) > 1

\* C2: right after a successful enroll, every lesson of the course has exactly
\* one progress row of the new enrollment, the enrollment has no row of a lesson
\* of another course, every row is incomplete with completed_at null, and
\* progress_percentage is 0.0.
C2_OneIncompleteRowPerLesson ==
    response.op = "enroll" =>
        LET e == response.eid
            c == enrollments[e].course
        IN  /\ \A l \in CourseLessons(c) : Cardinality(Rows(Tables, e, l)) = 1
            /\ \A p \in RowsOf(Tables, e) :
                /\ progress[p].lesson \in CourseLessons(c)
                /\ progress[p].completed = FALSE
                /\ progress[p].completed_at = NULL
            /\ progress_percentage(DB, e) = 0

C2_Witness ==
    /\ response.op = "enroll"
    /\ RowsOf(Tables, response.eid) # {}
    /\ \E l \in DOMAIN lessons : l \notin CourseLessons(enrollments[response.eid].course)

\* C3: after any sequence of requests run one at a time, an enrollment has
\* completed_at set exactly when its progress_percentage is 100.
C3_CompletedIffHundredPercent ==
    \A e \in DOMAIN enrollments :
        is_completed(DB, e) <=> progress_percentage(DB, e) = 10000

C3_Witness ==
    /\ response.op = "reset_lesson"
    /\ Done(prev, response.eid)
    /\ completed_records(DB, response.eid) # {}
    /\ ~is_completed(DB, response.eid)

\* C4: after complete_lesson, the enrollment's completed_at is non-null if every
\* progress row of the enrollment is completed, and null if some row is still
\* incomplete.
C4_CompleteCascades ==
    response.op = "complete_lesson" =>
        LET e == response.eid
        IN  /\ AllDone(Tables, e) => enrollments[e].completed_at # NULL
            /\ ~AllDone(Tables, e) => enrollments[e].completed_at = NULL

C4_Witness ==
    /\ response.op = "complete_lesson"
    /\ ~Done(prev, response.eid)
    /\ Done(Tables, response.eid)
    /\ Cardinality(RowsOf(Tables, response.eid)) > 1

\* C5: reset_lesson on any row of an enrollment with completed_at set leaves
\* the enrollment's completed_at null.
C5_ResetUncompletes ==
    (response.op = "reset_lesson" /\ Done(prev, response.eid)) =>
        enrollments[response.eid].completed_at = NULL

C5_Witness ==
    /\ response.op = "reset_lesson"
    /\ Done(prev, response.eid)
    /\ \E p \in RowsOf(Tables, response.eid) : progress[p].completed

\* C6: complete_lesson leaves the row completed with completed_at set; called on
\* a pair that is already completed it returns 200 and changes no completed
\* flag and no enrollment's completion state.
C6_CompleteIsIdempotent ==
    /\ response.op = "complete_lesson" =>
        \A p \in Rows(Tables, response.eid, response.lesson) :
            progress[p].completed /\ progress[p].completed_at # NULL
    /\ \A e \in DOMAIN enrollments, l \in DOMAIN lessons :
        (\E p \in Rows(Tables, e, l) : progress[p].completed) =>
            LET r == complete_lesson(DB, enrollments[e].student, e, l)
            IN  /\ r.status = 200
                /\ Flags(r.db) = Flags(Tables)
                /\ \A p \in Rows(Tables, e, l) : r.db.progress[p].completed_at # NULL
                /\ \A f \in DOMAIN enrollments : Done(r.db, f) = Done(Tables, f)

C6_Witness ==
    /\ response.op = "complete_lesson"
    /\ \E p \in Rows(prev, response.eid, response.lesson) : prev.progress[p].completed
    /\ Flags(prev) = Flags(Tables)

\* C7: complete_lesson then reset_lesson on the same pair leaves the row
\* incomplete with completed_at null; if the pair was incomplete before, all
\* completed flags and the null-ness of every enrollment's completed_at are as
\* before the complete_lesson.
C7_CompleteThenResetRestores ==
    \A e \in DOMAIN enrollments, l \in DOMAIN lessons :
        LET u == enrollments[e].student
            r1 == complete_lesson(DB, u, e, l)
            r2 == reset_lesson_progress(r1.db, u, e, l)
        IN  r1.status = 200 =>
                /\ r2.status = 200
                /\ \A p \in Rows(Tables, e, l) :
                    /\ r2.db.progress[p].completed = FALSE
                    /\ r2.db.progress[p].completed_at = NULL
                /\ (\A p \in Rows(Tables, e, l) : ~progress[p].completed) =>
                    /\ Flags(r2.db) = Flags(Tables)
                    /\ \A f \in DOMAIN enrollments : Done(r2.db, f) = Done(Tables, f)

C7_Witness ==
    /\ response.op = "reset_lesson"
    /\ \E p \in Rows(prev, response.eid, response.lesson) :
        /\ prev.progress[p].completed
        /\ ~progress[p].completed
    /\ Done(prev, response.eid)

\* C8: enroll for a (student, course) pair that already has an enrollment is
\* refused with 400 and writes nothing: the tables are unchanged.
C8_SecondEnrollRejected ==
    \A u \in Users, c \in Slugs :
        (\E e \in DOMAIN enrollments :
            enrollments[e].student = u /\ enrollments[e].course = c) =>
            LET r == enroll_in_course(DB, u, c)
            IN  r.status = 400 /\ r.db = DB

C8_Witness ==
    /\ response.op = "enroll"
    /\ enroll_in_course(DB, enrollments[response.eid].student,
                        enrollments[response.eid].course).status = 400

\* C9: there is at most one enrollment row per (student, course) pair, also
\* when two enroll requests interleave.
C9_AtMostOneEnrollmentPerPair ==
    \A e, f \in DOMAIN enrollments :
        (enrollments[e].student = enrollments[f].student
            /\ enrollments[e].course = enrollments[f].course) => e = f

\* C10: no state holds an enrollment whose number of progress rows differs
\* from the number of lessons its course had when it was inserted.
C10_ProvisioningAllOrNothing ==
    \A e \in DOMAIN enrollments :
        Cardinality(RowsOf(Tables, e)) = Cardinality(lessons_at_enroll[e])

\* C11: for every enrollment the bulk value (the annotation of
\* EnrollmentFilter) equals the scalar Enrollment.progress_percentage, and the
\* progress_min / progress_max filters select exactly the enrollments whose
\* scalar percentage passes the bound.
C11_BulkEqualsScalar ==
    \A u \in Students :
        LET qs == get_queryset(DB, u)
        IN  /\ \A e \in qs :
                  100 * annotated_progress(DB, e).num
                      = progress_percentage(DB, e) * annotated_progress(DB, e).den
            /\ \A v \in FilterValues :
                  /\ filter_progress_min(DB, qs, v)
                        = {e \in qs : progress_percentage(DB, e) >= v}
                  /\ filter_progress_max(DB, qs, v)
                        = {e \in qs : progress_percentage(DB, e) <= v}

\* the number of completed rows of enrollment e
DoneCount(tbl, e) == Cardinality({p \in RowsOf(tbl, e) : tbl.progress[p].completed})

\* C12: progress_percentage is 100 * completed / total rounded to two decimals
\* (33.33, 66.67 and 100.0 for 1, 2 and 3 of 3), where total is the number of
\* progress rows of the enrollment, whatever the course's lesson count is now.
C12_PercentageOverRows ==
    \A e \in DOMAIN enrollments :
        LET t == Cardinality(RowsOf(Tables, e))
            c == DoneCount(Tables, e)
            pct == progress_percentage(DB, e)
        IN  t > 0 =>
                /\ 2 * (pct * t - 10000 * c) <= t
                /\ 2 * (10000 * c - pct * t) <= t
                /\ (t = 3 /\ c = 1) => pct = 3333
                /\ (t = 3 /\ c = 2) => pct = 6667
                /\ c = t => pct = 10000

C12_Witness ==
    \E e \in DOMAIN enrollments :
        /\ Cardinality(RowsOf(Tables, e)) = 3
        /\ DoneCount(Tables, e) = 2
        /\ Cardinality(CourseLessons(enrollments[e].course)) = 4
        /\ progress_percentage(DB, e) = 6667

\* C13: the percentage lies between 0.0 and 100.0 on both paths, and it is
\* exactly 0.0 for an enrollment with no progress rows.
C13_PercentageInRange ==
    \A e \in DOMAIN enrollments :
        LET a == annotated_progress(DB, e)
        IN  /\ progress_percentage(DB, e) \in 0..10000
            /\ a.den > 0 /\ a.num >= 0 /\ a.num <= 100 * a.den
            /\ RowsOf(Tables, e) = {} => progress_percentage(DB, e) = 0 /\ a.num = 0

C13_Witness ==
    \E e, f \in DOMAIN enrollments :
        /\ RowsOf(Tables, e) = {}
        /\ progress_percentage(DB, e) = 0
        /\ progress_percentage(DB, f) = 10000

\* (module.order, lesson.order) of lesson a is before that of lesson b
KeyBefore(a, b) ==
    \/ ModuleOrder[lessons[a].module] < ModuleOrder[lessons[b].module]
    \/ /\ ModuleOrder[lessons[a].module] = ModuleOrder[lessons[b].module]
       /\ lessons[a].order < lessons[b].order
Incomplete(e) == {p \in RowsOf(Tables, e) : ~progress[p].completed}

\* C14: get_next_lesson is the lesson of an incomplete row that no incomplete
\* row precedes in (module.order, lesson.order), whatever the order in which
\* rows were completed, and it is None exactly when every row is completed.
C14_NextLessonIsFirstIncomplete ==
    \A e \in DOMAIN enrollments :
        LET n == get_next_lesson(DB, e)
        IN  /\ n = NoLesson <=> Incomplete(e) = {}
            /\ n # NoLesson =>
                  /\ \E p \in Incomplete(e) : progress[p].lesson = n
                  /\ \A p \in Incomplete(e) : ~KeyBefore(progress[p].lesson, n)

C14_Witness ==
    \E e \in DOMAIN enrollments :
        /\ response.op = "reset_lesson"
        /\ response.eid = e
        /\ get_next_lesson(DB, e) # NoLesson
        /\ \E p \in Incomplete(e) :
              /\ progress[p].lesson < get_next_lesson(DB, e)
              /\ KeyBefore(get_next_lesson(DB, e), progress[p].lesson)

\* no request is in flight
Quiet == \A r \in 1..MaxReqs : reqs[r].pc \in {"idle", "done"}
\* request r has returned 200 for operation op
Returned(r, op) == reqs[r].pc = "done" /\ reqs[r].op = op /\ reqs[r].status = 200

\* C15: once concurrent complete_lesson requests on an enrollment have all
\* returned, however their row writes, all-complete checks and enrollment
\* writes interleaved, their rows are completed, and if every row of the
\* enrollment is completed its completed_at is set.
C15_ConcurrentCompletesCascade ==
    (Quiet /\ \A r \in 1..MaxReqs :
                 reqs[r].pc = "done" => Returned(r, "complete_lesson")) =>
        \A r \in 1..MaxReqs :
            reqs[r].pc = "done" =>
                /\ progress[reqs[r].row].completed
                /\ AllDone(Tables, reqs[r].eid) => Done(Tables, reqs[r].eid)

C15_Witness ==
    /\ Quiet
    /\ \E r1, r2 \in 1..MaxReqs :
        /\ Returned(r1, "complete_lesson") /\ Returned(r2, "complete_lesson")
        /\ reqs[r1].eid = reqs[r2].eid
        /\ reqs[r1].row # reqs[r2].row
        /\ \A p \in RowsOf(prev, reqs[r1].eid) :
              prev.progress[p].completed <=> p \notin {reqs[r1].row, reqs[r2].row}
        /\ Done(Tables, reqs[r1].eid)

\* C16: when a reset_lesson request that overlapped a complete_lesson request
\* on another lesson of the same enrollment returns after the completion has
\* returned, the enrollment's completed_at is set if and only if every row is
\* completed.
C16_CompleteResetAtomic ==
    [][\A r1, r2 \in 1..MaxReqs :
        (/\ Returned(r1, "complete_lesson")
         /\ reqs[r2].pc = "r_cascade" /\ reqs'[r2].pc = "done"
         /\ reqs[r1].eid = reqs[r2].eid
         /\ reqs[r1].row # reqs[r2].row) =>
            (Done(Tables, reqs[r1].eid)' <=> AllDone(Tables, reqs[r1].eid)')]_vars

\* C17: enroll by an authenticated caller who is not a student is refused with
\* 403, enroll by a student in a course that does not exist or is not
\* published with 404, and an anonymous enroll with 401; a refused enroll
\* creates no enrollment row and no progress row.
C17_EnrollRefusedBeforeMutation ==
    \A u \in Users, c \in Slugs :
        LET r == enroll_in_course(DB, u, c)
        IN  /\ (is_authenticated(u) /\ u \notin Students) => r.status = 403
            /\ (u \in Students /\ (c \notin Courses \/ CourseStatus[c] # "published"))
                  => r.status = 404
            /\ r.status \in {401, 403, 404} =>
                  /\ r.db.enrollments = enrollments
                  /\ r.db.progress = progress

C17_Witness ==
    /\ response.op = "enroll"
    /\ progress # <<>>
    /\ enroll_in_course(DB, "i1", "c1").status = 403
    /\ enroll_in_course(DB, enrollments[response.eid].student, "c3").status = 404
    /\ enroll_in_course(DB, enrollments[response.eid].student, "missing").status = 404

\* the completed flag and timestamp of every progress row
RowState(tbl) ==
    [p \in DOMAIN tbl.progress |-> <<tbl.progress[p].completed, tbl.progress[p].completed_at>>]
\* the completed_at of every enrollment
CompletedAt(tbl) == [e \in DOMAIN tbl.enrollments |-> tbl.enrollments[e].completed_at]
\* the tables of a database value
TablesOf(db) == [enrollments |-> db.enrollments, progress |-> db.progress]

\* C18: complete_lesson and reset_lesson by an authenticated user who does not
\* own the enrollment, or for a lesson without a progress row under it, return
\* 404 and change no progress row and no completed_at; whoever calls, the rows
\* and completed_at of enrollments of other students stay as they are.
C18_ForeignOrMissingIsNotFound ==
    \A u \in Users \ {Anonymous}, e \in 1..(MaxEnrollments + 1), l \in LessonIds :
        LET c == complete_lesson(DB, u, e, l)
            r == reset_lesson_progress(DB, u, e, l)
            foreign == e \notin DOMAIN enrollments \/ enrollments[e].student # u
            others == {x \in DOMAIN enrollments : enrollments[x].student # u}
        IN  /\ (foreign \/ Rows(Tables, e, l) = {}) =>
                  /\ c.status = 404 /\ r.status = 404
                  /\ RowState(TablesOf(c.db)) = RowState(Tables)
                  /\ RowState(TablesOf(r.db)) = RowState(Tables)
                  /\ CompletedAt(TablesOf(c.db)) = CompletedAt(Tables)
                  /\ CompletedAt(TablesOf(r.db)) = CompletedAt(Tables)
            /\ \A x \in others :
                  /\ c.db.enrollments[x] = enrollments[x]
                  /\ r.db.enrollments[x] = enrollments[x]
                  /\ \A p \in RowsOf(Tables, x) :
                        c.db.progress[p] = progress[p] /\ r.db.progress[p] = progress[p]

C18_Witness ==
    \E e, f \in DOMAIN enrollments :
        /\ enrollments[e].student # enrollments[f].student
        /\ \E p \in RowsOf(Tables, e) :
              /\ progress[p].completed
              /\ complete_lesson(DB, enrollments[f].student, e, progress[p].lesson).status = 404
              /\ reset_lesson_progress(DB, enrollments[f].student, e, progress[p].lesson).status = 404
        /\ \E l \in CourseLessons(enrollments[e].course) :
              /\ Rows(Tables, e, l) = {}
              /\ complete_lesson(DB, enrollments[e].student, e, l).status = 404

\* C19: a lesson or a module created after students have enrolled leaves the
\* Enrollment and Progress tables as they were: no enrollment gets a row for
\* the new lesson, every progress_percentage and completed_at is unchanged and
\* a completed enrollment stays completed.
C19_CatalogGrowthLeavesProgress ==
    response.op \in {"create_lesson", "create_module"} =>
        /\ Tables = prev
        /\ \A e \in DOMAIN enrollments :
              /\ response.op = "create_lesson" => Rows(Tables, e, response.lesson) = {}
              /\ progress_percentage(DB, e)
                    = progress_percentage([DB EXCEPT !.enrollments = prev.enrollments,
                                                     !.progress = prev.progress], e)
              /\ Done(prev, e) => Done(Tables, e) /\ is_completed(DB, e)

C19_Witness ==
    /\ response.op = "create_lesson"
    /\ lessons[response.lesson].module = 5
    /\ \E e \in DOMAIN enrollments :
          /\ enrollments[e].course = ModuleCourse[5]
          /\ Cardinality(RowsOf(Tables, e)) = 3
          /\ Done(Tables, e)

\* C20: the completed_at of an enrollment changes only in a complete_lesson or
\* a reset_lesson request; no unenroll, admin action or lesson creation sets
\* or clears it.
C20_OnlyCascadeWritesCompletedAt ==
    [][\A e \in DOMAIN enrollments :
        enrollments'[e].completed_at # enrollments[e].completed_at =>
            response'.op \in {"complete_lesson", "reset_lesson"}]_vars

\* C21: a successful unenroll acted on an active enrollment without
\* completed_at, clears its is_active and changes nothing else: the row with
\* its enrolled_at and completed_at, the other enrollments and all progress
\* rows are as before. On a completed enrollment of the caller unenroll is
\* refused with 400, on an inactive, unknown or foreign one with 404, and a
\* refused unenroll writes nothing.
C21_UnenrollIsGuardedSoftDelete ==
    /\ response.op = "unenroll" =>
          /\ prev.enrollments[response.eid].is_active
          /\ prev.enrollments[response.eid].completed_at = NULL
          /\ enrollments = [prev.enrollments EXCEPT ![response.eid].is_active = FALSE]
          /\ progress = prev.progress
    /\ \A u \in Users \ {Anonymous}, e \in 1..(MaxEnrollments + 1) :
          LET r == unenroll_from_course(DB, u, e)
              mine == e \in DOMAIN enrollments /\ enrollments[e].student = u
          IN  /\ (mine /\ enrollments[e].is_active /\ Done(Tables, e)) =>
                    r.status = 400 /\ r.db = DB
              /\ (~mine \/ ~enrollments[e].is_active) => r.status = 404 /\ r.db = DB

C21_Witness ==
    /\ response.op = "unenroll"
    /\ \E p \in RowsOf(Tables, response.eid) : progress[p].completed
    /\ unenroll_from_course(DB, enrollments[response.eid].student, response.eid).status = 404
    /\ \E f \in DOMAIN enrollments :
          /\ Done(Tables, f) /\ enrollments[f].is_active
          /\ unenroll_from_course(DB, enrollments[f].student, f).status = 400

\* the sum of x over the finite set S of integers given as pairs <<key, x>>
RECURSIVE Total(_)
Total(S) == IF S = {} THEN 0 ELSE LET x == CHOOSE y \in S : TRUE IN x[2] + Total(S \ {x})

\* C22: in every state Course.total_lessons is the number of lessons in the
\* modules of the course and Course.total_duration is the sum of their
\* duration_minutes, lessons of duration 0 adding nothing; for the fixture
\* course with M1 {10, 15} and M2 {20} they are 3 and 45.
C22_CourseRollups ==
    /\ \A c \in Courses :
          /\ total_lessons(DB, c) = Cardinality(CourseLessons(c))
          /\ total_duration(DB, c)
                = Total({<<l, lessons[l].duration_minutes>> : l \in CourseLessons(c)})
    /\ (\A l \in DOMAIN lessons : l > 3 => ModuleCourse[lessons[l].module] # "c1") =>
          total_lessons(DB, "c1") = 3 /\ total_duration(DB, "c1") = 45

C22_Witness ==
    /\ response.op = "create_lesson"
    /\ lessons[response.lesson].duration_minutes = 0
    /\ ModuleCourse[lessons[response.lesson].module] = "c1"
    /\ total_lessons(DB, "c1") = 4
    /\ total_duration(DB, "c1") = 45

\* C23: retrieving the details of a course answers 200 to any requester, an
\* unauthenticated client and a user who is not the instructor of the course
\* included.
C23_AnyoneRetrievesCourse ==
    \A user \in Users, slug \in DOMAIN courses :
        retrieve_course(DB, user, slug).status = 200

\* the requesters other than the instructor of the course
Strangers(slug) == {user \in Users : user # courses[slug].instructor}

\* C24: an update or a delete of a course by an authenticated user other than
\* its instructor is answered 403 and leaves the database as it was, one by a
\* client without credentials is refused without a write as well, and a course
\* creation by an authenticated user who is not an instructor is answered 403
\* and creates no course.
C24_OnlyOwnerMutatesCourse ==
    /\ \A slug \in DOMAIN courses, level \in Levels :
           \A user \in Strangers(slug) :
               LET u == update_course(DB, user, slug, level)
                   d == destroy_course(DB, user, slug)
                   refused == IF user = Anonymous THEN 401 ELSE 403
               IN  /\ u.status = refused /\ u.db = DB
                   /\ d.status = refused /\ d.db = DB
    /\ \A slug \in CourseSlugs, level \in Levels :
           \A user \in Students \cup {Anonymous} :
               LET c == create_course(DB, user, slug, level)
               IN  /\ c.status = (IF user = Anonymous THEN 401 ELSE 403)
                   /\ c.db = DB

\* C24 witness: the owner's update has been served and changed the level of a
\* course, and the update and the delete of that course by another instructor
\* and by a student are refused with 403.
C24_Witness ==
    /\ response.op = "update_course"
    /\ \E slug \in DOMAIN courses :
           /\ courses[slug].level = "advanced"
           /\ \E i \in Instructors \cap Strangers(slug) :
                  update_course(DB, i, slug, "beginner").status = 403
           /\ \E st \in Students :
                  destroy_course(DB, st, slug).status = 403

\* the active enrollments of student s
ActiveOf(s) == {e \in DOMAIN enrollments : enrollments[e].student = s /\ enrollments[e].is_active}

\* C25: the dashboard of a student counts the student's own enrollments with
\* is_active = true and no others: total_courses is their number,
\* completed_courses those with completed_at set, active_courses those with
\* completed_at null, so total_courses = active_courses + completed_courses,
\* and total_lessons_completed is the number of completed progress rows of
\* those enrollments.
C25_DashboardCountsActiveOwn ==
    \A s \in Students :
        LET d == student_dashboard(DB, s)
        IN  /\ d.status = 200
            /\ d.total_courses = Cardinality(ActiveOf(s))
            /\ d.completed_courses = Cardinality({e \in ActiveOf(s) : Done(Tables, e)})
            /\ d.active_courses = Cardinality({e \in ActiveOf(s) : ~Done(Tables, e)})
            /\ d.total_courses = d.active_courses + d.completed_courses
            /\ d.total_lessons_completed
                  = Cardinality({p \in DOMAIN progress :
                                    progress[p].completed /\ progress[p].enrollment \in ActiveOf(s)})

\* C25 witness: a student holds a completed active enrollment and a
\* deactivated one with a completed row, and the dashboard shows one course,
\* completed, and the completed rows of that one only.
C25_Witness ==
    \E s \in Students :
        \E e1, e2 \in DOMAIN enrollments :
            /\ enrollments[e1].student = s /\ enrollments[e2].student = s
            /\ enrollments[e1].is_active /\ Done(Tables, e1)
            /\ ~enrollments[e2].is_active /\ DoneCount(Tables, e2) > 0
            /\ student_dashboard(DB, s).total_courses = 1
            /\ student_dashboard(DB, s).completed_courses = 1
            /\ student_dashboard(DB, s).total_lessons_completed = DoneCount(Tables, e1)

\* C26: enrollment_certificate returns a certificate exactly when the caller
\* owns the enrollment and its completed_at is set at the time of the request;
\* and once a reset_lesson request on an enrollment that was completed has
\* returned and no request is in progress, the certificate is refused with 400
\* as long as some row of the enrollment is not completed.
C26_CertificateFollowsCompletion ==
    /\ \A user \in Users, eid \in 1..MaxEnrollments :
           enrollment_certificate(DB, user, eid).status = 200
              <=> /\ eid \in DOMAIN enrollments
                  /\ enrollments[eid].student = user
                  /\ Done(Tables, eid)
    /\ Quiet =>
           \A r \in 1..MaxReqs :
               (/\ Returned(r, "reset_lesson")
                /\ Done(prev, reqs[r].eid)
                /\ ~AllDone(Tables, reqs[r].eid)) =>
                   enrollment_certificate(DB, reqs[r].user, reqs[r].eid).status = 400

\* the deactivated enrollments of a table state
Inactive(tbl) == {e \in DOMAIN tbl.enrollments : ~tbl.enrollments[e].is_active}

\* C27: once an enrollment is deactivated, every enroll for its (student,
\* course) pair is refused with 400 and writes nothing, and no request of the
\* student API makes it active again or removes it: it is inactive after
\* every later step, and no second enrollment of the pair appears.
C27_UnenrolledStaysUnenrolled ==
    [][\A e \in Inactive(Tables) :
          /\ LET r == enroll_in_course(DB, enrollments[e].student, enrollments[e].course)
             IN  r.status = 400 /\ r.db = DB
          /\ e \in Inactive(Tables)'
          /\ \A f \in DOMAIN enrollments' :
                 (/\ enrollments'[f].student = enrollments[e].student
                  /\ enrollments'[f].course = enrollments[e].course) => f = e]_vars

\* C28: complete_lesson and reset_lesson on a deactivated enrollment succeed
\* as on an active one, complete the row or reset it with the cascade to
\* completed_at, and leave is_active false; and no step other than a served
\* unenroll changes the is_active of an enrollment.
C28_CompletionIgnoresIsActive ==
    [][/\ \A e \in Inactive(Tables), l \in LessonIds :
              Rows(Tables, e, l) # {} =>
                  LET c == complete_lesson(DB, enrollments[e].student, e, l)
                      r == reset_lesson_progress(DB, enrollments[e].student, e, l)
                  IN  /\ c.status = 200 /\ r.status = 200
                      /\ \A p \in Rows(Tables, e, l) :
                             c.db.progress[p].completed /\ ~r.db.progress[p].completed
                      /\ AllDone(TablesOf(c.db), e) => Done(TablesOf(c.db), e)
                      /\ ~Done(TablesOf(r.db), e)
                      /\ ~c.db.enrollments[e].is_active /\ ~r.db.enrollments[e].is_active
       /\ (\E e \in DOMAIN enrollments :
              enrollments'[e].is_active # enrollments[e].is_active) =>
                  (reqs' = reqs /\ response'.op = "unenroll")]_vars

\* C29: right after a bulk action of ProgressAdmin the Enrollment table is as
\* before, completed_at of every enrollment included, and the Progress table
\* differs from the one before only in completed and completed_at of the rows
\* of some selection, which are (true, now) after mark_as_completed and
\* (false, null) after mark_as_incomplete; also when the selection is every
\* row of an enrollment or holds a row of a completed enrollment.
C29_ProgressAdminLeavesEnrollment ==
    response.op \in {"admin_rows_completed", "admin_rows_incomplete"} =>
        /\ enrollments = prev.enrollments
        /\ DOMAIN progress = DOMAIN prev.progress
        /\ \E queryset \in SUBSET DOMAIN progress :
               \A p \in DOMAIN progress :
                   IF p \in queryset
                   THEN progress[p] =
                          [prev.progress[p] EXCEPT
                              !.completed = (response.op = "admin_rows_completed"),
                              !.completed_at =
                                  IF response.op = "admin_rows_completed" THEN now ELSE NULL]
                   ELSE progress[p] = prev.progress[p]

\* C29 witness: mark_as_incomplete has just reset a row of a completed
\* enrollment, which keeps its completed_at, while another enrollment whose
\* rows were all marked completed by the admin has none.
C29_Witness ==
    /\ response.op = "admin_rows_incomplete"
    /\ \E e \in DOMAIN enrollments :
           /\ Done(Tables, e) /\ ~AllDone(Tables, e) /\ AllDone(prev, e)
    /\ \E f \in DOMAIN enrollments :
           /\ RowsOf(Tables, f) # {} /\ AllDone(Tables, f) /\ ~Done(Tables, f)

\* the enrollments inserted when their course had no lesson
EmptyAtEnroll == {e \in DOMAIN enrollments : lessons_at_enroll[e] = {}}

\* C30: an enrollment made when its course had no lesson has no progress row
\* and a null completed_at in every state, whatever requests were served and
\* whatever lessons the course got since: complete_lesson and reset_lesson of
\* its student answer 404 for every lesson, its progress_percentage is 0.0,
\* its certificate is refused with 400, and unenroll leaves completed_at null.
C30_EmptyEnrollmentNeverCompletes ==
    \A e \in EmptyAtEnroll :
        LET s == enrollments[e].student
        IN  /\ RowsOf(Tables, e) = {}
            /\ ~Done(Tables, e)
            /\ \A l \in LessonIds :
                   /\ complete_lesson(DB, s, e, l).status = 404
                   /\ reset_lesson_progress(DB, s, e, l).status = 404
            /\ progress_percentage(DB, e) = 0
            /\ enrollment_certificate(DB, s, e).status = 400
            /\ unenroll_from_course(DB, s, e).db.enrollments[e].completed_at = NULL

\* C30 witness: the course of such an enrollment has lessons by now, another
\* enrollment has completed one, and the empty enrollment was just unenrolled.
C30_Witness ==
    /\ response.op = "unenroll"
    /\ response.eid \in EmptyAtEnroll
    /\ CourseLessons(enrollments[response.eid].course) # {}
    /\ \E f \in DOMAIN enrollments :
           /\ enrollments[f].course = enrollments[response.eid].course
           /\ Done(Tables, f)

====
